---- MODULE Spec2Model ----
(***************************************************************************)
(* Model of mod_dirlist (src/src/modules/mod_dirlist.c): the dirlist       *)
(* action of lighttpd2.  dirlist_create builds the configuration from an   *)
(* option list; the dirlist handler answers one request from the stat      *)
(* cache's directory entry, rendering the listing into the output queue.   *)
(*                                                                         *)
(* Strings are TLA+ strings; Chars gives the spelling of the ones whose    *)
(* characters matter (entry names, excludes, the URI path).  Encoded text  *)
(* is a sequence of tokens, one per source character.                      *)
(***************************************************************************)
EXTENDS Integers, Sequences, FiniteSets, TLC

\* ------------------------------------------------------------------ bounds
MaxOpts == 1
MaxEntries == 1
MaxWaits == 1

\* --------------------------------------------------------------- constants
MAX_INCLUDE_FILE_SIZE == 65536

\* errno values the handler tells apart, and one it does not
ENOENT == "ENOENT"
ENOTDIR == "ENOTDIR"
EACCES == "EACCES"
EIO == "EIO"

\* ----------------------------------------------------------------- strings
Chars(s) ==
  CASE s = "" -> <<>>
    [] s = "HEADER.txt" -> <<"H", "E", "A", "D", "E", "R", ".", "t", "x", "t">>
    [] s = "README.txt" -> <<"R", "E", "A", "D", "M", "E", ".", "t", "x", "t">>
    [] s = "a<b" -> <<"a", "<", "b">>
    [] s = "sub" -> <<"s", "u", "b">>
    [] s = ".h" -> <<".", "h">>
    [] s = "z~" -> <<"z", "~">>
    [] s = "bad" -> <<"b", "a", "d">>
    [] s = "<b" -> <<"<", "b">>
    [] s = "a" -> <<"a">>
    [] s = ".txt" -> <<".", "t", "x", "t">>
    [] s = "/d" -> <<"/", "d">>
    [] s = "/<d>/" -> <<"/", "<", "d", ">", "/">>
    [] s = "<i>&" -> <<"<", "i", ">", "&">>

\* li_string_suffix / li_string_prefix on spelled strings
li_string_suffix(str, s) ==
  LET a == Chars(str)
      b == Chars(s)
  IN  /\ Len(a) >= Len(b)
      /\ \A i \in 1..Len(b) : a[Len(a) - Len(b) + i] = b[i]

li_string_prefix(str, s) ==
  LET a == Chars(str)
      b == Chars(s)
  IN  /\ Len(a) >= Len(b)
      /\ \A i \in 1..Len(b) : a[i] = b[i]

\* li_string_encode, LI_ENCODING_HTML: one token per character
HtmlChar(c) ==
  CASE c = "<" -> "&lt;"
    [] c = ">" -> "&gt;"
    [] c = "&" -> "&amp;"
    [] OTHER -> c

\* li_string_encode, LI_ENCODING_URI
UriChar(c) ==
  CASE c = "<" -> "%3c"
    [] c = ">" -> "%3e"
    [] c = "&" -> "%26"
    [] c = "~" -> "%7e"
    [] OTHER -> c

li_string_encode_html(cs) == [i \in 1..Len(cs) |-> HtmlChar(cs[i])]

li_string_encode_uri(cs) == [i \in 1..Len(cs) |-> UriChar(cs[i])]

\* ------------------------------------------------------------ liValue
VString(s) == [type |-> "string", s |-> s, b |-> FALSE, l |-> <<>>]
VBool(b) == [type |-> "boolean", s |-> "", b |-> b, l |-> <<>>]
VList(l) == [type |-> "list", s |-> "", b |-> FALSE, l |-> l]

BoolKeys ==
  {"hide-dotfiles", "hide-tildefiles", "hide-directories",
   "include-header", "hide-header", "encode-header",
   "include-readme", "hide-readme", "encode-readme", "debug"}

StringKeys == {"sort", "css", "content-type"}

ListKeys == {"exclude-suffix", "exclude-prefix"}

\* one element of the option list: a (key, value) pair with a value of the
\* documented type or of another one, an unknown key, or a malformed item
OptionItems ==
  {VList(<<VString(k), v>>) :
      k \in BoolKeys, v \in {VBool(TRUE), VBool(FALSE), VString("x")}}
    \cup {VList(<<VString(k), v>>) :
      k \in StringKeys, v \in {VString("x"), VBool(TRUE)}}
    \cup {VList(<<VString(k), v>>) :
      k \in ListKeys,
      v \in {VList(<<VString("<b")>>), VList(<<VBool(TRUE)>>), VString("x")}}
    \cup {VList(<<VString("hide->suffix"), VList(<<VString("<b")>>)>>),
          VList(<<VString("debug")>>), VBool(TRUE)}

RECURSIVE SeqsUpTo(_, _)
SeqsUpTo(S, n) ==
  IF n = 0 THEN {<<>>}
  ELSE LET shorter == SeqsUpTo(S, n - 1)
       IN  shorter \cup {Append(q, x) : q \in {r \in shorter : Len(r) = n - 1}, x \in S}

\* val: NULL, a value that is no list, or a list of at most MaxOpts items
NoVal == [type |-> "null", s |-> "", b |-> FALSE, l |-> <<>>]

OptionLists ==
  {NoVal, VString("x")} \cup {VList(q) : q \in SeqsUpTo(OptionItems, MaxOpts)}

\* what reading data.string of a value that holds no string can yield:
\* a fault, or the bytes some other object happens to hold
UBOutcomes == {"crash", "", ".txt"}

\* ------------------------------------------------------- dirlist_create
\* g_slice_new0 plus the defaults of lines 516-525; css is <<>> when NULL
DefaultData ==
  [css |-> <<>>,
   hide_dotfiles |-> TRUE, hide_tildefiles |-> TRUE,
   include_header |-> FALSE, hide_header |-> FALSE, encode_header |-> TRUE,
   include_readme |-> TRUE, hide_readme |-> FALSE, encode_readme |-> TRUE,
   hide_directories |-> FALSE, debug |-> FALSE,
   exclude_suffix |-> <<>>, exclude_prefix |-> <<>>,
   content_type |-> "text/html; charset=utf-8"]

\* what dirlist_free leaves of a configuration
FreedData == [DefaultData EXCEPT !.content_type = ""]

BoolField(k) ==
  CASE k = "hide-dotfiles" -> "hide_dotfiles"
    [] k = "hide-tildefiles" -> "hide_tildefiles"
    [] k = "hide-directories" -> "hide_directories"
    [] k = "include-header" -> "include_header"
    [] k = "hide-header" -> "hide_header"
    [] k = "encode-header" -> "encode_header"
    [] k = "include-readme" -> "include_readme"
    [] k = "hide-readme" -> "hide_readme"
    [] k = "encode-readme" -> "encode_readme"
    [] k = "debug" -> "debug"

\* the loop bodies of lines 624-632 and 639-647: the guard tests v, which is
\* a list here, so every element's data.string is read whatever its type
ExcludeStrings(l, ub) ==
  [j \in 1..Len(l) |-> IF l[j].type = "string" THEN l[j].s ELSE ub]

ExcludeFaults(l, ub) ==
  ub = "crash" /\ \E j \in 1..Len(l) : l[j].type # "string"

Rejected == [ret |-> "NULL", data |-> FreedData, freed |-> TRUE]

\* one iteration of the loop of lines 528-667 on item tmpval
create_option(data, tmpval, ub) ==
  IF \/ tmpval.type # "list"
     \/ Len(tmpval.l) # 2
     \/ tmpval.l[1].type # "string"
  THEN Rejected
  ELSE
    LET k == tmpval.l[1].s
        v == tmpval.l[2]
        Go(d) == [ret |-> "ok", data |-> d, freed |-> FALSE]
    IN  CASE k = "sort" ->
               IF v.type # "string" THEN Rejected ELSE Go(data)
          [] k = "css" ->
               IF v.type # "string" THEN Rejected
               ELSE Go([data EXCEPT !.css = <<v.s>>])
          [] k \in BoolKeys ->
               IF v.type # "boolean" THEN Rejected
               ELSE Go([data EXCEPT ![BoolField(k)] = v.b])
          [] k = "exclude-suffix" ->
               IF v.type # "list" THEN Rejected
               ELSE IF ExcludeFaults(v.l, ub)
               THEN [ret |-> "crash", data |-> FreedData, freed |-> FALSE]
               ELSE Go([data EXCEPT !.exclude_suffix = @ \o ExcludeStrings(v.l, ub)])
          [] k = "exclude-prefix" ->
               IF v.type # "list" THEN Rejected
               ELSE IF ExcludeFaults(v.l, ub)
               THEN [ret |-> "crash", data |-> FreedData, freed |-> FALSE]
               ELSE Go([data EXCEPT !.exclude_prefix = @ \o ExcludeStrings(v.l, ub)])
          [] k = "content-type" ->
               IF v.type # "string" THEN Rejected
               ELSE Go([data EXCEPT !.content_type = v.s])
          [] OTHER -> Rejected

RECURSIVE create_loop(_, _, _, _)
create_loop(data, list, i, ub) ==
  IF i > Len(list) THEN [ret |-> "action", data |-> data, freed |-> FALSE]
  ELSE LET r == create_option(data, list[i], ub)
       IN  IF r.ret = "ok" THEN create_loop(r.data, list, i + 1, ub) ELSE r

\* dirlist_create(srv, p, val): ret is "action" (li_action_new_function),
\* "NULL", or "crash" when the fault of the undefined read is taken
dirlist_create(val, ub) ==
  IF val.type # "null" /\ val.type # "list"
  THEN [ret |-> "NULL", data |-> FreedData, freed |-> FALSE]
  ELSE IF val.type = "null"
  THEN [ret |-> "action", data |-> DefaultData, freed |-> FALSE]
  ELSE create_loop(DefaultData, val.l, 1, ub)

\* ---------------------------------------------------- dirlist_format_size
Digit(n) ==
  CASE n = 0 -> "0" [] n = 1 -> "1" [] n = 2 -> "2" [] n = 3 -> "3"
    [] n = 4 -> "4" [] n = 5 -> "5" [] n = 6 -> "6" [] n = 7 -> "7"
    [] n = 8 -> "8" [] n = 9 -> "9"

Unit(u) ==
  CASE u = 0 -> "B" [] u = 1 -> "K" [] u = 2 -> "M" [] u = 3 -> "G"
    [] u = 4 -> "T" [] u = 5 -> "P" [] u = 6 -> "E"

\* the while loop of lines 200-204
RECURSIVE format_size_scale(_, _, _)
format_size_scale(size, remaining, u) ==
  IF size > 1024
  THEN format_size_scale(size \div 1024, size % 1024, u + 1)
  ELSE [size |-> size, remaining |-> remaining, u |-> u]

dirlist_format_size(size0) ==
  LET sc == format_size_scale(size0, 0, 0)
      r1 == sc.remaining \div 100
      r2 == IF r1 > 9 THEN 9 ELSE r1
      over == sc.size > 999
      size == IF over THEN 0 ELSE sc.size
      remaining == IF over THEN 9 ELSE r2
      u == IF over THEN sc.u + 1 ELSE sc.u
      int == IF size > 99
             THEN Digit(size \div 100) \o Digit((size % 100) \div 10)
                    \o Digit((size % 100) % 10)
             ELSE IF size > 9
             THEN Digit(size \div 10) \o Digit(size % 10)
             ELSE Digit(size)
      frac == IF u # 0 THEN "." \o Digit(remaining) ELSE ""
  IN  int \o frac \o Unit(u)

\* ------------------------------------------------------------ stat cache
\* liStatCacheEntryData of one child of the directory
Entry(path, failed, isdir, size) ==
  [path |-> path, failed |-> failed, isdir |-> isdir, size |-> size, mtime |-> 0]

Catalog ==
  {Entry("HEADER.txt", FALSE, FALSE, 0),
   Entry("HEADER.txt", FALSE, FALSE, 65536),
   Entry("HEADER.txt", FALSE, TRUE, 4096),
   Entry("README.txt", FALSE, FALSE, 999),
   Entry("a<b", FALSE, FALSE, 1024),
   Entry(".h", FALSE, FALSE, 1048576),
   Entry("z~", FALSE, FALSE, 10),
   Entry("sub", FALSE, TRUE, 4096),
   Entry("bad", TRUE, FALSE, 0)}

\* a directory holds each name once
DistinctNames(q) ==
  \A i, j \in 1..Len(q) : i # j => q[i].path # q[j].path

Snapshots == {q \in SeqsUpTo(Catalog, MaxEntries) : DistinctNames(q)}

\* liStatCacheEntry: data.path, data.failed, data.err, data.st.st_mode,
\* dirlist; NoSce stands for the pointer not being set
NoSce ==
  [path |-> "", failed |-> FALSE, err |-> "", isdir |-> FALSE, dirlist |-> <<>>]

Sces ==
  {[path |-> "/srv/d", failed |-> TRUE, err |-> e, isdir |-> FALSE,
    dirlist |-> <<>>] : e \in {ENOENT, ENOTDIR, EACCES, EIO}}
    \cup {[path |-> "/srv/d", failed |-> FALSE, err |-> "", isdir |-> FALSE,
           dirlist |-> <<>>]}
    \cup {[path |-> "/srv/d", failed |-> FALSE, err |-> "", isdir |-> TRUE,
           dirlist |-> q] : q \in Snapshots}

\* what the handler's collaborators answer in one run: the return value and
\* entry of li_stat_cache_get_dirlist, and whether li_etag_set_header finds
\* the client's copy fresh
StatAnswers ==
  {[ret |-> r, sce |-> NoSce, fresh |-> FALSE] : r \in {"WAIT_FOR_EVENT", "ERROR"}}
    \cup {[ret |-> "GO_ON", sce |-> e, fresh |-> FALSE] : e \in Sces}
    \cup {[ret |-> "GO_ON", sce |-> e, fresh |-> TRUE] : e \in {x \in Sces : x.isdir}}

\* ------------------------------------------------------------- request
\* liVRequest: the request as it reaches the handler
Requests ==
  [method : {"GET", "HEAD", "POST"},
   handled : BOOLEAN,
   physical_path : {"", "/srv/d"},
   uri_path : {"", "/d", "/<d>/"},
   http_status : {0},
   headers : {{}},
   out : {<<>>}]

\* what the handler did besides the response: releases of the entry, a read
\* of the entry after its release, what li_etag_set_header reported ("" when
\* not called), the filter loop, and the auxiliary files try_append_file was
\* asked to open or read
NoTrace ==
  [released |-> 0, stale |-> FALSE, cachable |-> "", filtered |-> FALSE, aux |-> {}]

\* li_vrequest_is_handled
li_vrequest_is_handled(vr) == vr.handled

\* li_vrequest_handle_direct: [ok, vr]
li_vrequest_handle_direct(vr) ==
  IF vr.handled THEN [ok |-> FALSE, vr |-> vr]
  ELSE [ok |-> TRUE, vr |-> [vr EXCEPT !.handled = TRUE]]

\* li_http_header_overwrite
li_http_header_overwrite(headers, name, value) ==
  {h \in headers : h[1] # name} \cup {<<name, value>>}

\* li_vrequest_redirect_directory
li_vrequest_redirect_directory(vr) ==
  [li_vrequest_handle_direct(vr).vr EXCEPT
     !.http_status = 301,
     !.headers = li_http_header_overwrite(@, "Location", vr.uri_path \o "/")]

\* li_etag_set_header: [vr, cachable]
li_etag_set_header(vr, fresh) ==
  [vr |-> [vr EXCEPT !.headers = li_http_header_overwrite(@, "ETag", "etag")],
   cachable |-> fresh]

\* li_mimetype_get: "" when no type is known
li_mimetype_get(path) ==
  IF li_string_suffix(path, ".txt") THEN "text/plain" ELSE ""

\* ---------------------------------------------------------------- output
\* a piece of the listing buffer: the html snippet k with its %s arguments
Frag(k, href, text, mtime, val, disp, type) ==
  [k |-> k, href |-> href, text |-> text, mtime |-> mtime, val |-> val,
   disp |-> disp, type |-> type]

Lit(k) == Frag(k, <<>>, <<>>, 0, 0, "", "")

\* chunks of vr->out
StringChunk(buf) == [type |-> "string", data |-> buf, name |-> "", length |-> 0]

FileChunk(name, length) ==
  [type |-> "file", data |-> <<>>, name |-> name, length |-> length]

\* --------------------------------------------------------- try_append_file
\* the file filename of the listed directory, as open() finds it
FileNamed(fs, filename) == {i \in 1..Len(fs) : fs[i].path = filename}

\* what a read of the file yields: nothing when empty, else text with markup
Contents(e) == IF e.size = 0 THEN <<>> ELSE Chars("<i>&")

\* try_append_file queueing the file without flushing the buffer first
try_append_file_no_flush(out, curbuf, fs, filename, encode_html) ==
  LET found == {i \in 1..Len(fs) : fs[i].path = filename /\ ~fs[i].failed}
      skip == [out |-> out, curbuf |-> curbuf]
  IN  IF found = {} THEN skip
      ELSE
        LET e == fs[CHOOSE i \in found : TRUE]
        IN  IF e.size > MAX_INCLUDE_FILE_SIZE THEN skip
            ELSE IF ~encode_html
            THEN [out |-> Append(out, FileChunk(filename, e.size)),
                  curbuf |-> curbuf]
            ELSE IF e.isdir THEN skip
            ELSE [out |-> out,
                  curbuf |-> Append(curbuf,
                     Frag("pre", <<>>, li_string_encode_html(Contents(e)), 0, 0, "", ""))]

\* try_append_file(vr, &curbuf, filename, encode_html): [out, curbuf]
try_append_file(out, curbuf, fs, filename, encode_html) ==
  LET found == FileNamed(fs, filename)
      skip == [out |-> out, curbuf |-> curbuf]
  IN  IF found = {} THEN skip
      ELSE
        LET e == fs[CHOOSE i \in found : TRUE]
        IN  IF e.failed THEN skip
            ELSE IF ~encode_html
            THEN IF e.size > MAX_INCLUDE_FILE_SIZE THEN skip
                 ELSE [out |-> out \o <<StringChunk(curbuf), FileChunk(filename, e.size)>>,
                       curbuf |-> <<>>]
            ELSE IF e.isdir THEN skip
            ELSE IF e.size > MAX_INCLUDE_FILE_SIZE THEN skip
            ELSE [out |-> out,
                  curbuf |-> Append(curbuf,
                     Frag("pre", <<>>, li_string_encode_html(Contents(e)), 0, 0, "", ""))]

\* ------------------------------------------------------------ filter loop
\* one pass of the loop of lines 324-371 over entry i (counted from 1)
Excluded(dd, path) ==
  \/ \E j \in 1..Len(dd.exclude_suffix) : li_string_suffix(path, dd.exclude_suffix[j])
  \/ \E j \in 1..Len(dd.exclude_prefix) : li_string_prefix(path, dd.exclude_prefix[j])

\* filter_entry without the test of sced->failed
filter_entry_keeps_failed(dd, sced, i, acc) ==
  LET cs == Chars(sced.path)
      have(a, on, flag) ==
        IF on /\ sced.size > 0 /\ sced.size < MAX_INCLUDE_FILE_SIZE
        THEN [a EXCEPT ![flag] = TRUE] ELSE a
  IN  IF dd.hide_dotfiles /\ cs[1] = "." THEN acc
      ELSE IF dd.hide_tildefiles /\ cs[Len(cs)] = "~" THEN acc
      ELSE IF Excluded(dd, sced.path) THEN acc
      ELSE IF sced.isdir
      THEN IF dd.hide_directories THEN acc
           ELSE [acc EXCEPT !.directories = Append(@, i)]
      ELSE IF (dd.include_header \/ dd.hide_header) /\ sced.path = "HEADER.txt"
      THEN IF dd.hide_header THEN have(acc, dd.include_header, "have_header")
           ELSE [have(acc, dd.include_header, "have_header") EXCEPT
                   !.files = Append(@, i)]
      ELSE IF (dd.include_readme \/ dd.hide_readme) /\ sced.path = "README.txt"
      THEN IF dd.hide_readme THEN have(acc, dd.include_readme, "have_readme")
           ELSE [have(acc, dd.include_readme, "have_readme") EXCEPT
                   !.files = Append(@, i)]
      ELSE [acc EXCEPT !.files = Append(@, i)]

filter_entry(dd, sced, i, acc) ==
  LET cs == Chars(sced.path)
  IN  IF sced.failed THEN acc
      ELSE IF dd.hide_dotfiles /\ cs[1] = "." THEN acc
      ELSE IF dd.hide_tildefiles /\ cs[Len(cs)] = "~" THEN acc
      ELSE IF Excluded(dd, sced.path) THEN acc
      ELSE IF sced.isdir
      THEN IF dd.hide_directories THEN acc
           ELSE [acc EXCEPT !.directories = Append(@, i)]
      ELSE IF (dd.include_header \/ dd.hide_header) /\ sced.path = "HEADER.txt"
      THEN LET a1 == IF dd.include_header /\ sced.size > 0
                          /\ sced.size < MAX_INCLUDE_FILE_SIZE
                     THEN [acc EXCEPT !.have_header = TRUE] ELSE acc
           IN  IF dd.hide_header THEN a1
               ELSE [a1 EXCEPT !.files = Append(@, i)]
      ELSE IF (dd.include_readme \/ dd.hide_readme) /\ sced.path = "README.txt"
      THEN LET a1 == IF dd.include_readme /\ sced.size > 0
                          /\ sced.size < MAX_INCLUDE_FILE_SIZE
                     THEN [acc EXCEPT !.have_readme = TRUE] ELSE acc
           IN  IF dd.hide_readme THEN a1
               ELSE [a1 EXCEPT !.files = Append(@, i)]
      ELSE [acc EXCEPT !.files = Append(@, i)]

RECURSIVE filter_loop(_, _, _, _)
filter_loop(dd, list, i, acc) ==
  IF i > Len(list) THEN acc
  ELSE filter_loop(dd, list, i + 1, filter_entry(dd, list[i], i, acc))

dirlist_filter(dd, list) ==
  filter_loop(dd, list, 1,
    [directories |-> <<>>, files |-> <<>>,
     have_header |-> FALSE, have_readme |-> FALSE])

\* ----------------------------------------------------------- the handler
Result(vr, ret, sce, tr) == [vr |-> vr, ret |-> ret, sce |-> sce, tr |-> tr]

\* li_stat_cache_entry_release
Release(tr) == [tr EXCEPT !.released = @ + 1]

\* lines 394-417: one row per listed directory
DirRows(dd, list, directories) ==
  IF dd.hide_directories THEN <<>>
  ELSE [n \in 1..Len(directories) |->
          LET sced == list[directories[n]]
          IN  Frag("dir_row",
                   Append(li_string_encode_uri(Chars(sced.path)), "/"),
                   li_string_encode_html(Chars(sced.path)),
                   sced.mtime, 0, "-", "Directory")]

\* lines 421-463: one row per listed file
FileRows(list, files) ==
  [n \in 1..Len(files) |->
     LET sced == list[files[n]]
         mime_str == li_mimetype_get(sced.path)
     IN  Frag("file_row",
              li_string_encode_uri(Chars(sced.path)),
              li_string_encode_html(Chars(sced.path)),
              sced.mtime, sced.size, dirlist_format_size(sced.size),
              IF mime_str # "" THEN mime_str ELSE "application/octet-stream")]

\* lines 373-385: the document head, the URI path printed with %s
ListingHead(vr, dd) ==
  <<Frag("html_header_start", <<>>, Chars(vr.uri_path), 0, 0, "", ""),
    IF dd.css # <<>> THEN Frag("css_link", dd.css, <<>>, 0, 0, "", "")
    ELSE Lit("html_css"),
    Lit("html_header_end")>>

\* lines 389-392: the table head and the parent row
TableStart(vr) ==
  <<Frag("html_table_start", <<>>, Chars(vr.uri_path), 0, 0, "", ""),
    Frag("html_table_row", <<"../">>, <<"Parent Directory">>, 0, 0, "-", "Directory")>>

\* lines 318-479: filter, render, queue the listing, release the entry
dirlist_render(vr, dd, sce, tr) ==
  LET f == dirlist_filter(dd, sce.dirlist)
      h == try_append_file(vr.out, ListingHead(vr, dd), sce.dirlist,
                           "HEADER.txt", dd.encode_header)
      body == h.curbuf \o TableStart(vr)
                \o DirRows(dd, sce.dirlist, f.directories)
                \o FileRows(sce.dirlist, f.files)
                \o <<Lit("html_table_end")>>
      r == try_append_file(h.out, body, sce.dirlist,
                           "README.txt", dd.encode_header)
      listing == Append(r.curbuf,
                   Frag("html_footer", <<>>, <<"lighttpd">>, 0, 0, "", ""))
  IN  Result([vr EXCEPT !.out = Append(r.out, StringChunk(listing))],
             "GO_ON", sce,
             Release([tr EXCEPT !.filtered = TRUE,
                                !.aux = @ \cup {"HEADER.txt", "README.txt"}]))

\* dirlist_cached without the change of status
dirlist_cached_keeps_200(vr, sce, tr) ==
  [vr |-> vr, ret |-> "GO_ON", sce |-> sce, tr |-> [tr EXCEPT !.released = @ + 1]]

\* lines 312-316: the client's copy is fresh
dirlist_cached(vr, sce, tr) ==
  Result([vr EXCEPT !.http_status = 304], "GO_ON", sce, Release(tr))

\* lines 287-317 and on: the directory is there and the path ends in '/'
dirlist_listing(vr, dd, sce, fresh, tr) ==
  LET h == li_vrequest_handle_direct(vr)
  IN  IF ~h.ok THEN Result(vr, "ERROR", sce, Release(tr))
      ELSE
        LET v1 == [h.vr EXCEPT
                     !.http_status = 200,
                     !.headers = li_http_header_overwrite(@, "Content-Type",
                                                          dd.content_type)]
            e == li_etag_set_header(v1, fresh)
            tr1 == [tr EXCEPT !.cachable = IF e.cachable THEN "yes" ELSE "no"]
        IN  IF e.cachable THEN dirlist_cached(e.vr, sce, tr1)
            ELSE dirlist_render(e.vr, dd, sce, tr1)

\* dirlist_redirect answering 200 itself instead of redirecting
dirlist_redirect_as_200(vr, sce, tr) ==
  [vr |-> [vr EXCEPT !.handled = TRUE, !.http_status = 200],
   ret |-> "GO_ON", sce |-> sce, tr |-> [tr EXCEPT !.released = @ + 1]]

\* lines 283-286: the URI path is empty or lacks the trailing slash
dirlist_redirect(vr, sce, tr) ==
  Result(li_vrequest_redirect_directory(vr), "GO_ON", sce, Release(tr))

\* dirlist_failed with EACCES falling into the default case
dirlist_failed_no_403(vr, sce, tr) ==
  IF sce.err = ENOENT \/ sce.err = ENOTDIR
  THEN [vr |-> vr, ret |-> "GO_ON", sce |-> sce,
        tr |-> [tr EXCEPT !.released = @ + 1]]
  ELSE [vr |-> vr, ret |-> "ERROR", sce |-> sce,
        tr |-> [tr EXCEPT !.released = @ + 1, !.stale = TRUE]]

\* lines 262-279: the stat of the directory failed
dirlist_failed(vr, sce, tr) ==
  LET e == sce.err
      tr1 == Release(tr)
  IN  IF e = ENOENT \/ e = ENOTDIR THEN Result(vr, "GO_ON", sce, tr1)
      ELSE IF e = EACCES
      THEN LET h == li_vrequest_handle_direct(vr)
           IN  IF ~h.ok THEN Result(vr, "ERROR", sce, tr1)
               ELSE Result([h.vr EXCEPT !.http_status = 403], "GO_ON", sce, tr1)
      ELSE Result(vr, "ERROR", sce, [tr1 EXCEPT !.stale = TRUE])

\* dirlist_wait claiming the response before it suspends
dirlist_wait_claims(vr, tr) ==
  [vr |-> [vr EXCEPT !.handled = TRUE, !.http_status = 200],
   ret |-> "WAIT_FOR_EVENT", sce |-> NoSce, tr |-> tr]

\* line 256: the stat cache has no answer yet
dirlist_wait(vr, tr) == Result(vr, "WAIT_FOR_EVENT", NoSce, tr)

\* dirlist(vr, param, context), answer being what the stat cache returns
dirlist(vr, dd, answer, tr) ==
  IF vr.method \notin {"GET", "HEAD"} THEN Result(vr, "GO_ON", NoSce, tr)
  ELSE IF li_vrequest_is_handled(vr) THEN Result(vr, "GO_ON", NoSce, tr)
  ELSE IF vr.physical_path = "" THEN Result(vr, "GO_ON", NoSce, tr)
  ELSE IF answer.ret = "WAIT_FOR_EVENT" THEN dirlist_wait(vr, tr)
  ELSE IF answer.ret # "GO_ON" THEN Result(vr, "ERROR", NoSce, tr)
  ELSE
    LET sce == answer.sce
        path == Chars(vr.uri_path)
    IN  IF sce.failed THEN dirlist_failed(vr, sce, tr)
        ELSE IF ~sce.isdir THEN Result(vr, "GO_ON", sce, Release(tr))
        ELSE IF Len(path) = 0 \/ path[Len(path)] # "/"
        THEN dirlist_redirect(vr, sce, tr)
        ELSE dirlist_listing(vr, dd, sce, answer.fresh, tr)

\* ------------------------------------------------------------------ state
VARIABLES
  pc,     \* "setup", "created", "lookup", "waiting", "done"
  val,    \* the option list dirlist_create is called with
  act,    \* what dirlist_create returned: "action", "NULL", "crash"
  dd,     \* the dirlist_data of the action
  freed,  \* dirlist_free ran on the configuration being built
  req,    \* the request as it reached the handler
  vr,     \* the request and its response
  ret,    \* what the last run of the handler returned
  waits,  \* runs of the handler that ended in WAIT_FOR_EVENT
  sce,    \* the stat cache entry the handler got
  tr      \* what the handler did besides the response

vars == <<pc, val, act, dd, freed, req, vr, ret, waits, sce, tr>>

NoRequest ==
  [method |-> "", handled |-> FALSE, physical_path |-> "", uri_path |-> "",
   http_status |-> 0, headers |-> {}, out |-> <<>>]

Init ==
  /\ pc = "setup"
  /\ val = NoVal
  /\ act = ""
  /\ dd = FreedData
  /\ freed = FALSE
  /\ req = NoRequest
  /\ vr = NoRequest
  /\ ret = ""
  /\ waits = 0
  /\ sce = NoSce
  /\ tr = NoTrace

\* the configuration is loaded: dirlist_create runs on one option list
Create ==
  /\ pc = "setup"
  /\ \E v \in OptionLists, ub \in UBOutcomes :
       LET r == dirlist_create(v, ub)
       IN  /\ val' = v
           /\ act' = r.ret
           /\ dd' = r.data
           /\ freed' = r.freed
  /\ pc' = "created"
  /\ UNCHANGED <<req, vr, ret, waits, sce, tr>>

\* a request reaches the installed action
NewRequest ==
  /\ pc = "created"
  /\ act = "action"
  /\ \E r \in Requests :
       /\ req' = r
       /\ vr' = r
  /\ val' = NoVal
  /\ pc' = "lookup"
  /\ UNCHANGED <<act, dd, freed, ret, waits, sce, tr>>

\* one run of the handler, first or after a wakeup by the stat cache
Dirlist ==
  /\ pc \in {"lookup", "waiting"}
  /\ \E answer \in StatAnswers :
       LET r == dirlist(vr, dd, answer, tr)
       IN  /\ r.ret = "WAIT_FOR_EVENT" => waits < MaxWaits
           /\ vr' = r.vr
           /\ ret' = r.ret
           /\ sce' = r.sce
           /\ tr' = r.tr
           /\ waits' = IF r.ret = "WAIT_FOR_EVENT" THEN waits + 1 ELSE waits
           /\ pc' = IF r.ret = "WAIT_FOR_EVENT" THEN "waiting" ELSE "done"
  /\ UNCHANGED <<val, act, dd, freed, req>>

Next == Create \/ NewRequest \/ Dirlist

Spec == Init /\ [][Next]_vars

\* ================================================================ claims
\* the document as the client receives it: the chunks of vr->out in order,
\* a file chunk shown as one piece
RECURSIVE Flatten(_)
Flatten(q) ==
  IF q = <<>> THEN <<>>
  ELSE (IF Head(q).type = "file"
        THEN <<Frag("file_chunk", <<>>, <<>>, 0, Head(q).length, Head(q).name, "")>>
        ELSE Head(q).data) \o Flatten(Tail(q))

Doc == Flatten(vr.out)

Pieces(k) == {i \in DOMAIN Doc : Doc[i].k = k}

\* the handler ran to the end of the rendering branch
Rendered == pc = "done" /\ tr.filtered

\* spliced file content above the table / below the table
HeaderPre == \E i \in Pieces("pre") : \E j \in Pieces("html_table_start") : i < j
HeaderRaw == \E i \in Pieces("file_chunk") : \E j \in Pieces("html_table_start") : i < j
ReadmePre == \E i \in Pieces("pre") : \E j \in Pieces("html_table_end") : j < i
ReadmeRaw == \E i \in Pieces("file_chunk") : \E j \in Pieces("html_table_end") : j < i

\* the regular files of the listed directory with the given name
Files(name) ==
  {i \in DOMAIN sce.dirlist :
     /\ sce.dirlist[i].path = name
     /\ ~sce.dirlist[i].failed
     /\ ~sce.dirlist[i].isdir}

RowOf(name) == \E i \in Pieces("file_row") : Doc[i].text = li_string_encode_html(Chars(name))

\* C1: dirlist_format_size gives "0B" for 0, "999B" for 999, "1.0K" for 1024
\* and "1.0M" for 1024*1024: every file row of one of these sizes shows it so
C1_FormatSizeExamples ==
  \A i \in Pieces("file_row") :
    /\ Doc[i].val = 0 => Doc[i].disp = "0B"
    /\ Doc[i].val = 999 => Doc[i].disp = "999B"
    /\ Doc[i].val = 1024 => Doc[i].disp = "1.0K"
    /\ Doc[i].val = 1048576 => Doc[i].disp = "1.0M"

\* C2: rendering with include-header on and hide-header off, a HEADER.txt of
\* 0 bytes or of 64 KiB or more adds no header content (no <pre>, no file
\* chunk) and HEADER.txt is a row of the file table
C2_NoHeaderWhenEmptyOrTooBig ==
  (/\ Rendered
   /\ dd.include_header /\ ~dd.hide_header
   /\ \E i \in Files("HEADER.txt") :
        sce.dirlist[i].size = 0 \/ sce.dirlist[i].size >= MAX_INCLUDE_FILE_SIZE)
  => (~HeaderPre /\ ~HeaderRaw /\ RowOf("HEADER.txt"))

\* C3: HEADER.txt content is in the document only if include-header is on and
\* the filter set have_header, README.txt content only if include-readme is
\* on and the filter set have_readme
C3_IncludeOnlyWhenOptionOn ==
  Rendered =>
    LET f == dirlist_filter(dd, sce.dirlist)
    IN  /\ (HeaderPre \/ HeaderRaw) => (dd.include_header /\ f.have_header)
        /\ (ReadmePre \/ ReadmeRaw) => (dd.include_readme /\ f.have_readme)

\* C4: in a rendered listing the URI path in <title> and <h2> is HTML-escaped,
\* and every entry row has the URI-escaped name as href and the HTML-escaped
\* name as link text
C4_EscapingDiscipline ==
  Rendered =>
    /\ \A i \in Pieces("html_header_start") \cup Pieces("html_table_start") :
         Doc[i].text = li_string_encode_html(Chars(req.uri_path))
    /\ \A i \in Pieces("file_row") :
         \E n \in DOMAIN sce.dirlist :
           /\ Doc[i].href = li_string_encode_uri(Chars(sce.dirlist[n].path))
           /\ Doc[i].text = li_string_encode_html(Chars(sce.dirlist[n].path))
    /\ \A i \in Pieces("dir_row") :
         \E n \in DOMAIN sce.dirlist :
           /\ Doc[i].href = Append(li_string_encode_uri(Chars(sce.dirlist[n].path)), "/")
           /\ Doc[i].text = li_string_encode_html(Chars(sce.dirlist[n].path))

\* an option list as the documentation allows it: pairs of a known key and a
\* value of its type, the exclude lists holding strings only
ItemValid(item) ==
  /\ item.type = "list" /\ Len(item.l) = 2 /\ item.l[1].type = "string"
  /\ LET k == item.l[1].s
         v == item.l[2]
     IN  \/ k \in BoolKeys /\ v.type = "boolean"
         \/ k \in StringKeys /\ v.type = "string"
         \/ k \in ListKeys /\ v.type = "list"
              /\ \A j \in DOMAIN v.l : v.l[j].type = "string"

OptionsValid(v) ==
  \/ v.type = "null"
  \/ v.type = "list" /\ \A i \in DOMAIN v.l : ItemValid(v.l[i])

\* C5: dirlist_create returns an action only for an option list whose every
\* pair has a known key and a value of the expected type (exclude lists:
\* strings only); for any other list it returns NULL with the configuration
\* freed
C5_CreateRejectsBadOptions ==
  pc = "created" =>
    /\ act = "action" => OptionsValid(val)
    /\ (val.type = "list" /\ ~OptionsValid(val)) => (act = "NULL" /\ freed)

\* C6: an included README.txt is a <pre> block with escaped text iff
\* encode-readme is on, and a raw file chunk iff it is off, whatever
\* encode-header is
C6_ReadmeEncodingByEncodeReadme ==
  (/\ Rendered
   /\ \E i \in Files("README.txt") : sce.dirlist[i].size <= MAX_INCLUDE_FILE_SIZE)
  => /\ ReadmePre <=> dd.encode_readme
     /\ ReadmeRaw <=> ~dd.encode_readme

\* C7: when the lookup of the directory failed, ENOENT and ENOTDIR give GO_ON
\* with the response unclaimed and its status untouched, EACCES gives a
\* claimed response with status 403 and GO_ON, any other errno gives ERROR,
\* and nothing is appended to the output
C7_StatFailureOutcome ==
  (pc = "done" /\ sce.failed) =>
    /\ sce.err \in {ENOENT, ENOTDIR} =>
         (ret = "GO_ON" /\ ~vr.handled /\ vr.http_status = req.http_status)
    /\ sce.err = EACCES =>
         (ret = "GO_ON" /\ vr.handled /\ vr.http_status = 403)
    /\ sce.err \notin {ENOENT, ENOTDIR, EACCES} => ret = "ERROR"
    /\ vr.out = req.out

C7_Witness ==
  /\ pc = "done" /\ sce.failed /\ sce.err = EACCES
  /\ vr.http_status = 403 /\ vr.handled

\* C8: a run that ends in WAIT_FOR_EVENT leaves the request as it arrived
\* (not claimed, status, headers and output untouched), and the run that
\* gets the entry ends as a single run on the arriving request would
C8_SuspendHasNoEffect ==
  /\ pc = "waiting" => (ret = "WAIT_FOR_EVENT" /\ vr = req /\ tr = NoTrace)
  /\ (pc = "done" /\ sce # NoSce) =>
       dirlist(req, dd, [ret |-> "GO_ON", sce |-> sce, fresh |-> tr.cachable = "yes"],
               NoTrace)
         = [vr |-> vr, ret |-> ret, sce |-> sce, tr |-> tr]

C8_Witness ==
  /\ pc = "done" /\ waits >= 1 /\ sce # NoSce
  /\ vr.http_status = 200 /\ vr.out # <<>>

\* C9: when li_etag_set_header reports cachable the handler ends with 304 and
\* GO_ON, with no filtering, no auxiliary file opened or read and nothing
\* appended; status 200 with a body comes only with not cachable
C9_CachedShortCircuit ==
  pc = "done" =>
    /\ tr.cachable = "yes" =>
         /\ vr.http_status = 304 /\ ret = "GO_ON"
         /\ ~tr.filtered /\ tr.aux = {} /\ vr.out = req.out
    /\ (vr.http_status = 200 /\ vr.out # <<>>) => tr.cachable = "no"

C9_Witness ==
  pc = "done" /\ tr.cachable = "yes" /\ vr.http_status = 304 /\ sce.dirlist # <<>>

\* C10: for GET or HEAD on an existing directory whose URI path is empty or
\* lacks the trailing '/', the handler redirects and returns GO_ON, without
\* status 200, Content-Type or ETag, and without any output
NoTrailingSlash(path) ==
  Len(Chars(path)) = 0 \/ Chars(path)[Len(Chars(path))] # "/"

C10_RedirectRendersNothing ==
  (/\ pc = "done"
   /\ sce # NoSce /\ ~sce.failed /\ sce.isdir
   /\ NoTrailingSlash(req.uri_path))
  => /\ ret = "GO_ON"
     /\ vr.http_status = 301
     /\ \E h \in vr.headers : h[1] = "Location"
     /\ \A h \in vr.headers : h[1] \notin {"Content-Type", "ETag"}
     /\ vr.out = <<>> /\ ~tr.filtered

C10_Witness ==
  /\ pc = "done" /\ req.method = "HEAD"
  /\ sce.isdir /\ sce.dirlist # <<>> /\ req.uri_path = "/d"
  /\ vr.http_status = 301

\* what the filter loop left in directories and files for the rendered entry
Filtered == dirlist_filter(dd, sce.dirlist)

Indices(q) == {q[n] : n \in DOMAIN q}

\* C11: after the filter loop every index in directories is an entry that is
\* not failed and is a directory, every index in files an entry that is not
\* failed and is no directory (HEADER.txt and README.txt included), and no
\* index is in both
C11_FilterClassifies ==
  Rendered =>
    /\ \A n \in Indices(Filtered.directories) :
         /\ n \in DOMAIN sce.dirlist
         /\ ~sce.dirlist[n].failed /\ sce.dirlist[n].isdir
    /\ \A n \in Indices(Filtered.files) :
         /\ n \in DOMAIN sce.dirlist
         /\ ~sce.dirlist[n].failed /\ ~sce.dirlist[n].isdir
    /\ Indices(Filtered.directories) \cap Indices(Filtered.files) = {}

C11_Witness ==
  /\ Rendered /\ dd.include_header
  /\ \E n \in DOMAIN sce.dirlist :
       /\ sce.dirlist[n].path = "HEADER.txt" /\ sce.dirlist[n].isdir
       /\ n \in Indices(Filtered.directories)
       /\ n \notin Indices(Filtered.files)

\* the pieces of the document generated before HEADER.txt is included
HeadKinds == {"html_header_start", "html_css", "css_link", "html_header_end"}

\* the pieces held by the string chunk c of the queue
ChunkKinds(c) == {vr.out[c].data[n].k : n \in DOMAIN vr.out[c].data}

FileChunks(name) ==
  {i \in DOMAIN vr.out : vr.out[i].type = "file" /\ vr.out[i].name = name}

StringChunks == {c \in DOMAIN vr.out : vr.out[c].type = "string"}

\* C12: with a file included raw the queue is in document order: the HTML
\* buffered before the include is queued right before the file chunk, the
\* HTML generated after it is queued after it in a fresh buffer, and no piece
\* is on the wrong side of the file chunk or queued twice
C12_RawIncludeKeepsOrder ==
  Rendered =>
    /\ \A i \in FileChunks("HEADER.txt") \cup FileChunks("README.txt") :
         /\ i - 1 \in StringChunks
         /\ \E c \in StringChunks : c > i
    /\ \A i \in FileChunks("HEADER.txt") : \A c \in StringChunks :
         /\ c < i => ChunkKinds(c) \subseteq HeadKinds
         /\ c > i => ChunkKinds(c) \cap HeadKinds = {}
    /\ \A i \in FileChunks("README.txt") : \A c \in StringChunks :
         /\ c < i => "html_footer" \notin ChunkKinds(c)
         /\ c > i => ChunkKinds(c) = {"html_footer"}
    /\ \A k \in {"html_header_start", "html_header_end", "html_table_start",
                 "html_table_end", "html_footer"} : Cardinality(Pieces(k)) = 1

C12_Witness ==
  /\ Rendered /\ ~dd.encode_header
  /\ \E i \in FileChunks("README.txt") :
       /\ vr.out[i].length = 999
       /\ "html_table_end" \in ChunkKinds(i - 1)
       /\ ChunkKinds(i + 1) = {"html_footer"}

\* C13: on every path on which the handler got an entry from the stat cache
\* the entry is released exactly once before the handler returns, and no
\* field of the entry is read after the release
C13_ReleasedOnceNoLaterRead ==
  (pc = "done" /\ sce # NoSce) => (tr.released = 1 /\ ~tr.stale)

====
